---- MODULE Spec2Model ----
(***************************************************************************)
(* Model of package datainfo (src/datainfo.go): the DataInfo descriptor,   *)
(* its option functions and the constructors New, NewMinimal and Copy.     *)
(*                                                                         *)
(* Every optional field of DataInfo is a Go pointer, so the model keeps a  *)
(* memory: a pointer is nil, the address of a package-level default        *)
(* variable, the address of a cell allocated for one descriptor field      *)
(* (new(T) or a composite literal), or the address of the variable seqGen  *)
(* captured by one SequenceGenerator option value.  A field's value is     *)
(* what the memory holds at the address it points to.                      *)
(***************************************************************************)
EXTENDS Integers, Sequences, FiniteSets, TLC

VARIABLES
    di,       \* the caller's *DataInfo variables: slot -> descriptor (field -> pointer)
    heap,     \* contents of the cells allocated for descriptor fields
    glob,     \* the package-level default variables (lines 44-52)
    seqGen,   \* the variable captured by each SequenceGenerator option value
    last,     \* the last call made: its name, its arguments, the views before it
    calls,    \* the number of calls made so far
    origin,   \* the constructor that returned the descriptor each slot holds
    clone     \* the last Copy whose source and clone are both still held

vars == <<di, heap, glob, seqGen, last, calls, origin, clone>>

-----------------------------------------------------------------------------
(* Bounds of the model. *)

\* Longest option list passed to a constructor.
MaxOpts == 2

\* Calls and writes in one behaviour of the consumer model (SpecW), and the
\* longest option list passed there.
MaxCalls == 3
MaxWOpts == 1

-----------------------------------------------------------------------------
(* Types and constants of the package. *)

FRONT == 0
REAR == 1

\* time.Minute counted in seconds (time.Duration counts nanoseconds, which
\* does not fit TLC's 32-bit integers); only equality of durations matters.
Minute == 60

StringFields == {"Schema", "ReferenceModePrefix", "ConnectionString", "DriverName",
                 "HelperID", "ParameterPlaceHolder", "StringEnclosingChar",
                 "StringEscapeChar", "ReservedWordEscapeChar"}
BoolFields == {"ReferenceMode", "InterpolateTables", "ParameterInSequence", "Ping"}
IntFields == {"MaxOpenConnection", "MaxIdleConnection", "MaxConnectionLifetime",
              "MaxConnectionIdleTime"}

\* The pointer-typed fields of DataInfo, and all its fields.
PtrFields == StringFields \cup BoolFields \cup IntFields \cup {"SequenceGenerator"}
Fields == PtrFields \cup {"ResultLimitPosition"}

\* The caller's descriptor variables.
Slots == {"d1", "d2"}

\* The SequenceGenerator option values the caller has made.
SGIds == {"g1", "g2"}

\* SequenceGeneratorInfo values.
SequenceGeneratorInfo(u, r, n) == [UpsertQuery |-> u, ResultQuery |-> r, NamePlaceHolder |-> n]
SubFields == {"UpsertQuery", "ResultQuery", "NamePlaceHolder"}

-----------------------------------------------------------------------------
(* Pointers and memory. *)

NilPtr == <<"nil">>
GlobPtr(g) == <<"glob", g>>        \* &refModePfx, &paramPh, ...
CellPtr(s, f) == <<"cell", s, f>>  \* the cell allocated for field f of the descriptor in slot s
CaptPtr(id) == <<"capt", id>>      \* &seqGen of option value id

Cells == Slots \X PtrFields

\* The content of a cell that is not allocated.
Free == "<free>"

\* *p in memory h.
Deref(p, h) ==
    CASE p[1] = "glob" -> glob[p[2]]
      [] p[1] = "cell" -> h[<<p[2], p[3]>>]
      [] p[1] = "capt" -> seqGen[p[2]]

\* What a reader of descriptor d sees in field f: <<>> when the field is
\* absent (nil), <<v>> when it is present with value v.
FieldView(d, h, f) ==
    IF f = "ResultLimitPosition" THEN <<d[f]>>
    ELSE IF d[f] = NilPtr THEN <<>>
    ELSE <<Deref(d[f], h)>>

View(d, h) == [f \in Fields |-> FieldView(d, h, f)]

\* The zero value DataInfo{}: every pointer nil, ResultLimitPosition 0.
ZeroDataInfo == [f \in Fields |-> IF f = "ResultLimitPosition" THEN FRONT ELSE NilPtr]

\* A machine state as an option closure sees it: the descriptor d it is
\* applied to and the heap h.
St(d, h) == [d |-> d, h |-> h]

\* d.f = new(T); *d.f = v  for the descriptor held in slot s.
SetNew(st, s, f, v) ==
    St([st.d EXCEPT ![f] = CellPtr(s, f)], [st.h EXCEPT ![<<s, f>>] = v])

\* The cells of slot s given back when its variable is assigned a new descriptor.
Release(h, s) == [c \in Cells |-> IF c[1] = s THEN Free ELSE h[c]]

-----------------------------------------------------------------------------
(* The package-level defaults set by init(). *)

InitGlob ==
    [refModePfx    |-> "ref",
     paramPh       |-> "?",
     strEncChar    |-> "'",
     strEscChar    |-> "\\",
     resWrdEscChar |-> "[]",
     intTbls       |-> TRUE,
     paramInSeq    |-> TRUE,
     maxOpnConn    |-> 25,
     maxIdlConn    |-> 25,
     maxConnLt     |-> 5 * Minute,
     maxConnIdlLt  |-> 3 * Minute,
     lmit          |-> REAR]

-----------------------------------------------------------------------------
(* The option functions.  Each takes the candidate value and the state the *)
(* returned closure is applied to, and gives the state the closure leaves. *)

Schema(sch, st, s) == SetNew(st, s, "Schema", sch)

ReferenceMode(indeed, st, s) == SetNew(st, s, "ReferenceMode", indeed)

ReferenceModePrefix(pfx, st, s) ==
    SetNew(st, s, "ReferenceModePrefix", IF pfx = "" THEN glob.refModePfx ELSE pfx)

InterpolateTables(indeed, st, s) == SetNew(st, s, "InterpolateTables", indeed)

ConnectionString(conn, st, s) ==
    IF conn = "" THEN st ELSE SetNew(st, s, "ConnectionString", conn)

DriverName(name, st, s) ==
    IF name = "" THEN st ELSE SetNew(st, s, "DriverName", name)

\* HelperID without the check for the empty string.
HelperIDNoSkip(id, st, s) == SetNew(st, s, "HelperID", id)

HelperID(id, st, s) ==
    IF id = "" THEN st ELSE SetNew(st, s, "HelperID", id)

ParameterInSequence(indeed, st, s) == SetNew(st, s, "ParameterInSequence", indeed)

\* ParameterPlaceHolder without the fallback to paramPh.
ParameterPlaceHolderVerbatim(holder, st, s) == SetNew(st, s, "ParameterPlaceHolder", holder)

ParameterPlaceHolder(holder, st, s) ==
    SetNew(st, s, "ParameterPlaceHolder", IF holder = "" THEN glob.paramPh ELSE holder)

StringEnclosingChar(char, st, s) ==
    SetNew(st, s, "StringEnclosingChar", IF char = "" THEN glob.strEncChar ELSE char)

\* StringEscapeChar writing the field of StringEnclosingChar.
StringEscapeCharWrongField(char, st, s) ==
    SetNew(st, s, "StringEnclosingChar", IF char = "" THEN glob.strEscChar ELSE char)

StringEscapeChar(char, st, s) ==
    SetNew(st, s, "StringEscapeChar", IF char = "" THEN glob.strEscChar ELSE char)

ReservedWordEscapeChar(char, st, s) ==
    SetNew(st, s, "ReservedWordEscapeChar", IF char = "" THEN glob.resWrdEscChar ELSE char)

MaxOpenConnection(max, st, s) ==
    SetNew(st, s, "MaxOpenConnection", IF max = 0 THEN glob.maxOpnConn ELSE max)

MaxIdleConnection(max, st, s) ==
    SetNew(st, s, "MaxIdleConnection", IF max = 0 THEN glob.maxIdlConn ELSE max)

MaxConnectionLifetime(max, st, s) ==
    SetNew(st, s, "MaxConnectionLifetime", IF max = 0 THEN glob.maxConnLt ELSE max)

MaxConnectionIdleTime(max, st, s) ==
    SetNew(st, s, "MaxConnectionIdleTime", IF max = 0 THEN glob.maxConnIdlLt ELSE max)

Ping(indeed, st, s) == SetNew(st, s, "Ping", indeed)

ResultLimitPosition(l, st, s) == St([st.d EXCEPT !["ResultLimitPosition"] = l], st.h)

\* The closure stores the address of its own captured parameter seqGen.
SequenceGenerator(id, st, s) == St([st.d EXCEPT !["SequenceGenerator"] = CaptPtr(id)], st.h)

-----------------------------------------------------------------------------
(* Option values (DataOption).  fn names the option function that made the *)
(* closure and val the candidate it captured; the nil DataOption has fn    *)
(* "nil".  A SequenceGenerator option value is named by its id: its        *)
(* captured variable is seqGen[id].                                        *)

Opt(fn, val) == [fn |-> fn, val |-> val]
NilOption == [fn |-> "nil"]

\* o(&n): the call of a non-nil option value.
Call(o, st, s) ==
    CASE o.fn = "Schema" -> Schema(o.val, st, s)
      [] o.fn = "ReferenceMode" -> ReferenceMode(o.val, st, s)
      [] o.fn = "ReferenceModePrefix" -> ReferenceModePrefix(o.val, st, s)
      [] o.fn = "InterpolateTables" -> InterpolateTables(o.val, st, s)
      [] o.fn = "ConnectionString" -> ConnectionString(o.val, st, s)
      [] o.fn = "DriverName" -> DriverName(o.val, st, s)
      [] o.fn = "HelperID" -> HelperID(o.val, st, s)
      [] o.fn = "ParameterInSequence" -> ParameterInSequence(o.val, st, s)
      [] o.fn = "ParameterPlaceHolder" -> ParameterPlaceHolder(o.val, st, s)
      [] o.fn = "StringEnclosingChar" -> StringEnclosingChar(o.val, st, s)
      [] o.fn = "StringEscapeChar" -> StringEscapeChar(o.val, st, s)
      [] o.fn = "ReservedWordEscapeChar" -> ReservedWordEscapeChar(o.val, st, s)
      [] o.fn = "MaxOpenConnection" -> MaxOpenConnection(o.val, st, s)
      [] o.fn = "MaxIdleConnection" -> MaxIdleConnection(o.val, st, s)
      [] o.fn = "MaxConnectionLifetime" -> MaxConnectionLifetime(o.val, st, s)
      [] o.fn = "MaxConnectionIdleTime" -> MaxConnectionIdleTime(o.val, st, s)
      [] o.fn = "Ping" -> Ping(o.val, st, s)
      [] o.fn = "ResultLimitPosition" -> ResultLimitPosition(o.val, st, s)
      [] o.fn = "SequenceGenerator" -> SequenceGenerator(o.val, st, s)

\* The loop with break in place of continue.
RECURSIVE ApplyOptionsBreak(_, _, _, _)
ApplyOptionsBreak(options, i, st, s) ==
    IF i > Len(options) \/ options[i].fn = "nil" THEN st
    ELSE ApplyOptionsBreak(options, i + 1, Call(options[i], st, s), s)

\* for _, o := range options { if o == nil { continue }; o(&n) }
RECURSIVE ApplyOptions(_, _, _, _)
ApplyOptions(options, i, st, s) ==
    IF i > Len(options) THEN st
    ELSE ApplyOptions(options, i + 1,
                      IF options[i].fn = "nil" THEN st ELSE Call(options[i], st, s), s)

-----------------------------------------------------------------------------
(* The constructors.  Each gives the state in which slot s holds the       *)
(* returned descriptor.                                                    *)

\* The composite literal of New: new(string), new(bool), the addresses of
\* the package-level defaults, and the value of lmit.
NewLiteral(h, s) ==
    LET d == [f \in Fields |->
                CASE f = "Schema" -> CellPtr(s, f)
                  [] f = "ReferenceMode" -> CellPtr(s, f)
                  [] f = "ReferenceModePrefix" -> GlobPtr("refModePfx")
                  [] f = "InterpolateTables" -> GlobPtr("intTbls")
                  [] f = "ParameterInSequence" -> GlobPtr("paramInSeq")
                  [] f = "ParameterPlaceHolder" -> GlobPtr("paramPh")
                  [] f = "StringEnclosingChar" -> GlobPtr("strEncChar")
                  [] f = "StringEscapeChar" -> GlobPtr("strEscChar")
                  [] f = "ReservedWordEscapeChar" -> GlobPtr("resWrdEscChar")
                  [] f = "MaxOpenConnection" -> GlobPtr("maxOpnConn")
                  [] f = "MaxIdleConnection" -> GlobPtr("maxIdlConn")
                  [] f = "MaxConnectionLifetime" -> GlobPtr("maxConnLt")
                  [] f = "MaxConnectionIdleTime" -> GlobPtr("maxConnIdlLt")
                  [] f = "Ping" -> CellPtr(s, f)
                  [] f = "ResultLimitPosition" -> glob.lmit
                  [] OTHER -> NilPtr]
        h1 == [Release(h, s) EXCEPT ![<<s, "Schema">>] = "",
                                    ![<<s, "ReferenceMode">>] = FALSE,
                                    ![<<s, "Ping">>] = FALSE]
    IN  St(d, h1)

\* New starting from DataInfo{} in place of the defaults.
NewNoDefaults(options, h, s) == ApplyOptions(options, 1, St(ZeroDataInfo, Release(h, s)), s)

New(options, h, s) == ApplyOptions(options, 1, NewLiteral(h, s), s)

\* NewMinimal applying the caller's options before the mandatory ones.
NewMinimalOptionsFirst(connStr, schema, driver, user, options, h, s) ==
    ApplyOptions(options \o <<Opt("ConnectionString", connStr), Opt("Schema", schema),
                              Opt("DriverName", driver)>>, 1, NewLiteral(h, s), s)

NewMinimal(connStr, schema, driver, user, options, h, s) ==
    LET opts == <<Opt("ConnectionString", connStr), Opt("Schema", schema),
                  Opt("DriverName", driver)>>
    IN  New(IF Len(options) > 0 THEN opts \o options ELSE opts, h, s)

\* The copying part of Copy: a new cell for every field present in the
\* source src (read in memory h), holding the source's value, and the
\* source's ResultLimitPosition.
CopyFields(src, h, s) ==
    LET d == [f \in Fields |->
                IF f = "ResultLimitPosition" THEN src[f]
                ELSE IF src[f] # NilPtr THEN CellPtr(s, f) ELSE NilPtr]
        h1 == [c \in Cells |->
                 IF c[1] # s THEN h[c]
                 ELSE IF src[c[2]] = NilPtr THEN Free
                 ELSE IF c[2] = "SequenceGenerator"
                      THEN LET sg == Deref(src[c[2]], h)
                           IN  SequenceGeneratorInfo(sg.UpsertQuery, sg.ResultQuery,
                                                     sg.NamePlaceHolder)
                 ELSE Deref(src[c[2]], h)]
    IN  St(d, h1)

\* Copy without n.ResultLimitPosition = di.ResultLimitPosition.
CopyNoLimit(src, options, h, s) ==
    LET st == CopyFields(src, h, s)
    IN  ApplyOptions(options, 1, St([st.d EXCEPT !["ResultLimitPosition"] = FRONT], st.h), s)

Copy(src, options, h, s) == ApplyOptions(options, 1, CopyFields(src, h, s), s)

-----------------------------------------------------------------------------
(* Inputs. *)

StrArgs == {"", "a"}
BoolArgs == BOOLEAN
IntArgs == {0, 7}
LimitArgs == {FRONT, REAR}

\* The candidate each SequenceGenerator option value was made with.
SGInfo(id) ==
    IF id = "g1" THEN SequenceGeneratorInfo("u1", "r1", "n1")
    ELSE SequenceGeneratorInfo("", "", "")

\* The non-nil option values a caller has: every option function, with a
\* zero and a non-zero candidate.
Options ==
    {Opt(f, v) : f \in StringFields, v \in StrArgs}
    \cup {Opt(f, v) : f \in BoolFields, v \in BoolArgs}
    \cup {Opt(f, v) : f \in IntFields, v \in IntArgs}
    \cup {Opt("ResultLimitPosition", v) : v \in LimitArgs}
    \cup {Opt("SequenceGenerator", id) : id \in SGIds}

\* The option values passed in lists: an option function of each kind
\* (set verbatim, fall back to the default, skip when empty, integer,
\* boolean, limit position, sequence generator) and the nil option.  The
\* loop over a list treats every non-nil entry alike.
ListOptions ==
    {Opt(f, v) : f \in {"Schema", "ReferenceModePrefix", "ConnectionString"}, v \in StrArgs}
    \cup {Opt("DriverName", "a"), Opt("MaxOpenConnection", 0), Opt("MaxOpenConnection", 7),
          Opt("Ping", TRUE), Opt("ResultLimitPosition", FRONT),
          Opt("SequenceGenerator", "g1"), NilOption}

SeqsUpTo(S, n) == UNION {[1..k -> S] : k \in 0..n}

OptionLists == SeqsUpTo(ListOptions, MaxOpts)

\* The option values and lists of the consumer model.
WOptions == {Opt("Schema", "a"), Opt("ParameterPlaceHolder", ""),
             Opt("SequenceGenerator", "g1")}
WOptionLists == SeqsUpTo(WOptions, MaxWOpts)

\* The mandatory arguments passed to NewMinimal.
MandatoryArgs == {"", "m"}

\* Descriptors a caller builds itself (DataInfo and its fields are
\* exported): every field absent, present with the zero value of its type,
\* or present with another value.
ZeroOf(f) ==
    IF f \in StringFields THEN ""
    ELSE IF f \in BoolFields THEN FALSE
    ELSE IF f \in IntFields THEN 0
    ELSE SequenceGeneratorInfo("", "", "")

OtherOf(f) ==
    IF f \in StringFields THEN "x"
    ELSE IF f \in BoolFields THEN TRUE
    ELSE IF f \in IntFields THEN 9
    ELSE SequenceGeneratorInfo("u", "r", "n")

OddFields == {"Schema", "ConnectionString", "HelperID", "StringEnclosingChar",
              "ReservedWordEscapeChar", "ReferenceMode", "ParameterInSequence",
              "MaxOpenConnection", "MaxConnectionLifetime"}

Shapes ==
    {[f \in PtrFields |-> "absent"],
     [f \in PtrFields |-> "zero"],
     [f \in PtrFields |-> "other"],
     [f \in PtrFields |-> IF f \in OddFields THEN "other" ELSE "absent"],
     [f \in PtrFields |-> IF f \in OddFields THEN "absent" ELSE "zero"],
     [f \in PtrFields |-> IF f \in OddFields THEN "zero" ELSE "other"]}

\* The descriptor of shape sh with limit position l, held in slot s.
Literal(sh, l, h, s) ==
    St([f \in Fields |->
          IF f = "ResultLimitPosition" THEN l
          ELSE IF sh[f] = "absent" THEN NilPtr ELSE CellPtr(s, f)],
       [c \in Cells |->
          IF c[1] # s THEN h[c]
          ELSE IF sh[c[2]] = "absent" THEN Free
          ELSE IF sh[c[2]] = "zero" THEN ZeroOf(c[2]) ELSE OtherOf(c[2])])

-----------------------------------------------------------------------------
(* State machine. *)

Views == [t \in Slots |-> View(di[t], heap)]

NoCall == [op |-> "init", s |-> "d1", src |-> "d1", options |-> <<>>,
           args |-> <<>>, pre |-> <<>>]

NoClone == [src |-> "none", dst |-> "none", view |-> <<>>]

EmptyHeap == [c \in Cells |-> Free]

InitCommon ==
    /\ glob = InitGlob
    /\ seqGen = [id \in SGIds |-> SGInfo(id)]
    /\ last = NoCall
    /\ calls = 0
    /\ clone = NoClone

\* One call on an enumerated descriptor: slot d1 holds a descriptor the
\* caller built itself or got from New().
Init ==
    /\ InitCommon
    /\ \/ \E sh \in Shapes, l \in LimitArgs :
            LET st == Literal(sh, l, EmptyHeap, "d1")
            IN  /\ di = [t \in Slots |-> IF t = "d1" THEN st.d ELSE ZeroDataInfo]
                /\ heap = st.h
                /\ origin = [t \in Slots |-> "literal"]
       \/ LET st == New(<<>>, EmptyHeap, "d1")
          IN  /\ di = [t \in Slots |-> IF t = "d1" THEN st.d ELSE ZeroDataInfo]
              /\ heap = st.h
              /\ origin = [t \in Slots |-> IF t = "d1" THEN "New" ELSE "literal"]

\* The consumer model starts with no descriptor built.
InitW ==
    /\ InitCommon
    /\ di = [t \in Slots |-> ZeroDataInfo]
    /\ heap = EmptyHeap
    /\ origin = [t \in Slots |-> "literal"]

Record(op, s, src, options, args, pre) ==
    /\ last' = [op |-> op, s |-> s, src |-> src, options |-> options,
                args |-> args, pre |-> pre]
    /\ calls' = calls + 1

\* s = New(options...)
NewCall(s, options) ==
    LET st == New(options, heap, s)
    IN  /\ di' = [di EXCEPT ![s] = st.d]
        /\ heap' = st.h
        /\ Record("New", s, s, options, <<>>, <<>>)
        /\ origin' = [origin EXCEPT ![s] = "New"]
        /\ clone' = NoClone
        /\ UNCHANGED <<glob, seqGen>>

\* s = NewMinimal(connStr, schema, driver, user, options...)
NewMinimalCall(s, connStr, schema, driver, user, options) ==
    LET st == NewMinimal(connStr, schema, driver, user, options, heap, s)
    IN  /\ di' = [di EXCEPT ![s] = st.d]
        /\ heap' = st.h
        /\ Record("NewMinimal", s, s, options, <<connStr, schema, driver, user>>, <<>>)
        /\ origin' = [origin EXCEPT ![s] = "NewMinimal"]
        /\ clone' = NoClone
        /\ UNCHANGED <<glob, seqGen>>

\* s = Copy(src, options...)
CopyCall(s, src, options) ==
    LET st == Copy(di[src], options, heap, s)
    IN  /\ di' = [di EXCEPT ![s] = st.d]
        /\ heap' = st.h
        /\ Record("Copy", s, src, options, <<>>, Views)
        /\ origin' = [origin EXCEPT ![s] = "Copy"]
        /\ clone' = IF s = src THEN NoClone
                    ELSE [src |-> src, dst |-> s, view |-> View(di[src], heap)]
        /\ UNCHANGED <<glob, seqGen>>

KeepClone(s) == clone' = IF clone.dst = s THEN clone ELSE NoClone

\* o(s): an option value applied to a descriptor the caller holds.
ApplyCall(s, o) ==
    LET st == Call(o, St(di[s], heap), s)
    IN  /\ di' = [di EXCEPT ![s] = st.d]
        /\ heap' = st.h
        /\ Record("Apply", s, s, <<o>>, <<>>, Views)
        /\ KeepClone(s)
        /\ UNCHANGED <<glob, seqGen, origin>>

\* *p = v
Store(p, v) ==
    /\ glob' = IF p[1] = "glob" THEN [glob EXCEPT ![p[2]] = v] ELSE glob
    /\ heap' = IF p[1] = "cell" THEN [heap EXCEPT ![<<p[2], p[3]>>] = v] ELSE heap
    /\ seqGen' = IF p[1] = "capt" THEN [seqGen EXCEPT ![p[2]] = v] ELSE seqGen

\* *s.f = v: a consumer writes the value a field of its descriptor points to.
WriteField(s, f, v) ==
    /\ di[s][f] # NilPtr
    /\ Store(di[s][f], v)
    /\ Record("Write", s, s, <<>>, <<f, v>>, Views)
    /\ KeepClone(s)
    /\ UNCHANGED <<di, origin>>

\* s.SequenceGenerator.sub = v
WriteSubField(s, sub, v) ==
    /\ di[s]["SequenceGenerator"] # NilPtr
    /\ LET p == di[s]["SequenceGenerator"]
       IN  Store(p, [Deref(p, heap) EXCEPT ![sub] = v])
    /\ Record("WriteSub", s, s, <<>>, <<sub, v>>, Views)
    /\ KeepClone(s)
    /\ UNCHANGED <<di, origin>>

\* The package's calls, each made once on the descriptor Init drew.
Next ==
    \/ calls = 0 /\ \E options \in OptionLists : NewCall("d1", options)
    \/ calls = 0 /\ \E c, sc, dr \in MandatoryArgs, options \in OptionLists :
                       NewMinimalCall("d1", c, sc, dr, "user", options)
    \/ calls = 0 /\ \E options \in OptionLists : CopyCall("d1", "d1", options)
    \/ calls = 0 /\ \E o \in Options : ApplyCall("d1", o)

Spec == Init /\ [][Next]_vars

\* The calls of a consumer that also writes, in place, the values its
\* descriptors point to.
NextW ==
    \/ calls < MaxCalls /\ \E s \in Slots, options \in WOptionLists : NewCall(s, options)
    \/ calls < MaxCalls /\ \E s \in Slots, options \in WOptionLists :
                              NewMinimalCall(s, "m", "m", "m", "user", options)
    \/ calls < MaxCalls /\ \E s, src \in Slots, options \in WOptionLists :
                              CopyCall(s, src, options)
    \/ calls < MaxCalls /\ \E s \in Slots, o \in WOptions : ApplyCall(s, o)
    \/ calls < MaxCalls /\ \E s \in Slots, f \in StringFields : WriteField(s, f, "w")
    \/ calls < MaxCalls /\ \E s \in Slots, f \in BoolFields : WriteField(s, f, FALSE)
    \/ calls < MaxCalls /\ \E s \in Slots, f \in IntFields : WriteField(s, f, 9)
    \/ calls < MaxCalls /\ \E s \in Slots, sub \in SubFields : WriteSubField(s, sub, "w")

SpecW == InitW /\ [][NextW]_vars

-----------------------------------------------------------------------------
(* What the documentation states, written down apart from the code. *)

\* The fields with a documented process-wide default, and the default.
DefaultedFields == {"ReferenceModePrefix", "ParameterPlaceHolder", "StringEnclosingChar",
                    "StringEscapeChar", "ReservedWordEscapeChar", "InterpolateTables",
                    "ParameterInSequence", "MaxOpenConnection", "MaxIdleConnection",
                    "MaxConnectionLifetime", "MaxConnectionIdleTime"}

DocDefault(f) ==
    CASE f = "ReferenceModePrefix" -> "ref"
      [] f = "ParameterPlaceHolder" -> "?"
      [] f = "StringEnclosingChar" -> "'"
      [] f = "StringEscapeChar" -> "\\"
      [] f = "ReservedWordEscapeChar" -> "[]"
      [] f = "InterpolateTables" -> TRUE
      [] f = "ParameterInSequence" -> TRUE
      [] f = "MaxOpenConnection" -> 25
      [] f = "MaxIdleConnection" -> 25
      [] f = "MaxConnectionLifetime" -> 5 * Minute
      [] f = "MaxConnectionIdleTime" -> 3 * Minute

\* The options that fall back to the default, and those that skip the set.
FallbackFields == DefaultedFields \ {"InterpolateTables", "ParameterInSequence"}
SkipFields == {"ConnectionString", "DriverName", "HelperID"}

\* The view of New() as documented.
NewDefaultsView ==
    [f \in Fields |->
        IF f \in DefaultedFields THEN <<DocDefault(f)>>
        ELSE IF f = "Schema" THEN <<"">>
        ELSE IF f \in {"ReferenceMode", "Ping"} THEN <<FALSE>>
        ELSE IF f = "ResultLimitPosition" THEN <<REAR>>
        ELSE <<>>]

\* The candidate an option value was made with, and whether it is the zero
\* value of its type.
Candidate(o) == IF o.fn = "SequenceGenerator" THEN SGInfo(o.val) ELSE o.val

IsZeroArg(o) ==
    IF o.fn \in StringFields THEN o.val = ""
    ELSE IF o.fn \in IntFields THEN o.val = 0
    ELSE IF o.fn \in BoolFields THEN o.val = FALSE
    ELSE IF o.fn = "ResultLimitPosition" THEN o.val = FRONT
    ELSE SGInfo(o.val) = SequenceGeneratorInfo("", "", "")

\* Whether applying o sets its field, and the value it then installs.
Effective(o) == o.fn # "nil" /\ ~(o.fn \in SkipFields /\ o.val = "")

Installed(o) ==
    IF o.fn \in FallbackFields /\ IsZeroArg(o) THEN DocDefault(o.fn) ELSE Candidate(o)

\* The view a field has after the options of a list were applied in order
\* to a descriptor of view base: that of the last option that sets it.
Expected(f, options, base) ==
    LET idx == {i \in 1..Len(options) : Effective(options[i]) /\ options[i].fn = f}
    IN  IF idx = {} THEN base[f]
        ELSE <<Installed(options[CHOOSE i \in idx : \A j \in idx : j <= i])>>

\* The view of the descriptor the last call returned or changed, and the
\* view of its source before the call.
Post == View(di[last.s], heap)
Pre == last.pre[last.src]

-----------------------------------------------------------------------------
(* Claims. *)

\* C1: an option applied with a non-empty, non-zero candidate makes exactly
\* its own field present with exactly the candidate, and leaves the presence
\* and value of every other field of the descriptor as they were.
C1_ExactlyOneField ==
    (last.op = "Apply" /\ ~IsZeroArg(last.options[1])) =>
        \A f \in Fields :
            Post[f] = IF f = last.options[1].fn THEN <<Candidate(last.options[1])>>
                      ELSE Pre[f]

C1_Witness ==
    /\ last.op = "Apply"
    /\ ~IsZeroArg(last.options[1])
    /\ last.options[1].fn = "StringEscapeChar"
    /\ Pre["StringEscapeChar"] = <<>>
    /\ Post["StringEscapeChar"] = <<"a">>
    /\ Pre["StringEnclosingChar"] = <<"x">>
    /\ Post["StringEnclosingChar"] = <<"x">>

\* C2: a fallback option applied with "" or 0 leaves its field present and
\* equal to the documented default, whatever the field held before.
C2_FallbackDefault ==
    (last.op = "Apply" /\ last.options[1].fn \in FallbackFields /\ IsZeroArg(last.options[1])) =>
        Post[last.options[1].fn] = <<DocDefault(last.options[1].fn)>>

C2_Witness ==
    /\ last.op = "Apply"
    /\ last.options[1] = Opt("ParameterPlaceHolder", "")
    /\ Pre["ParameterPlaceHolder"] = <<"x">>
    /\ Post["ParameterPlaceHolder"] = <<"?">>

\* C3: Copy with no options returns a descriptor in which every field is
\* present exactly when it is in the source and then holds the same value;
\* absent fields stay absent and ResultLimitPosition is the source's.
C3_CopyEqual ==
    (last.op = "Copy" /\ last.options = <<>>) => Post = Pre

C3_Witness ==
    /\ last.op = "Copy"
    /\ last.options = <<>>
    /\ Pre["HelperID"] = <<>>
    /\ Pre["Ping"] = <<FALSE>>
    /\ Pre["ParameterPlaceHolder"] = <<"">>
    /\ Pre["SequenceGenerator"] = <<SequenceGeneratorInfo("", "", "")>>
    /\ Pre["ResultLimitPosition"] = <<REAR>>
    /\ Post = Pre

\* C4: after Copy, and after any options applied to the clone or writes to
\* the values the clone points to, every field of the source has the
\* presence and value it had before Copy was called.
C4_SourceUntouched ==
    clone.src # "none" => View(di[clone.src], heap) = clone.view

\* C5: New() returns a descriptor in which every field with a documented
\* default is present and equal to it, ResultLimitPosition is REAR and
\* SequenceGenerator is absent.
C5_NewDefaults ==
    (last.op = "New" /\ last.options = <<>>) =>
        /\ \A f \in DefaultedFields : Post[f] = <<DocDefault(f)>>
        /\ Post["ResultLimitPosition"] = <<REAR>>
        /\ Post["SequenceGenerator"] = <<>>

C5_Witness ==
    /\ last.op = "New"
    /\ last.options = <<>>
    /\ Post["MaxConnectionLifetime"] = <<5 * Minute>>
    /\ Post["ReservedWordEscapeChar"] = <<"[]">>

\* C6: New and Copy apply the non-nil options in the order given: every
\* field of the result is what the last option of the list that sets it
\* installs, or what the initial descriptor (the defaults for New, the copy
\* of the source for Copy) holds when none does; nil entries change nothing.
C6_InOrder ==
    last.op \in {"New", "Copy"} =>
        \A f \in Fields :
            Post[f] = Expected(f, last.options, IF last.op = "Copy" THEN Pre ELSE NewDefaultsView)

C6_Witness ==
    /\ last.op = "New"
    /\ Len(last.options) = 2
    /\ last.options[1] = Opt("Schema", "a")
    /\ last.options[2] = Opt("Schema", "")
    /\ Post["Schema"] = <<"">>

\* C7: NewMinimal(connStr, schema, driver, user, opts...) returns what
\* New(ConnectionString(connStr), Schema(schema), DriverName(driver), opts...)
\* returns; an empty connStr or driver leaves the field absent, an empty
\* schema is set verbatim, and what is not targeted stays at its default.
C7_NewMinimalAsNew ==
    last.op = "NewMinimal" =>
        LET a == last.args
            mandatory == <<Opt("ConnectionString", a[1]), Opt("Schema", a[2]),
                           Opt("DriverName", a[3])>>
            st == New(mandatory \o last.options, heap, last.s)
        IN  /\ Post = View(st.d, st.h)
            /\ last.options = <<>> =>
                 \A f \in Fields :
                    Post[f] = CASE f = "ConnectionString" -> IF a[1] = "" THEN <<>> ELSE <<a[1]>>
                                [] f = "Schema" -> <<a[2]>>
                                [] f = "DriverName" -> IF a[3] = "" THEN <<>> ELSE <<a[3]>>
                                [] OTHER -> NewDefaultsView[f]

C7_Witness ==
    /\ last.op = "NewMinimal"
    /\ last.args = <<"", "m", "m", "user">>
    /\ last.options = <<Opt("Schema", "a")>>
    /\ Post["ConnectionString"] = <<>>
    /\ Post["Schema"] = <<"a">>
    /\ Post["DriverName"] = <<"m">>
    /\ Post["ParameterPlaceHolder"] = <<"?">>

\* C8: ConnectionString, DriverName and HelperID applied with "" change no
\* field: an absent field stays absent and an earlier value is kept.
C8_EmptySkips ==
    (last.op = "Apply" /\ last.options[1].fn \in SkipFields /\ last.options[1].val = "") =>
        Post = Pre

C8_Witness ==
    /\ last.op = "Apply"
    /\ last.options[1] = Opt("HelperID", "")
    /\ Pre["HelperID"] = <<"x">>
    /\ Post["HelperID"] = <<"x">>

\* C9: every process-wide default keeps its initial value, and a write to a
\* field value of a descriptor returned by New changes no field of any
\* other descriptor.
C9_DefaultsIsolated ==
    /\ glob = InitGlob
    /\ (last.op = "Write" /\ origin[last.s] = "New") =>
          \A t \in Slots \ {last.s} : View(di[t], heap) = last.pre[t]

\* C10: writing a sub-field of one descriptor's sequence generator leaves
\* the sequence generator of every other descriptor unchanged, and the
\* record a later application of a SequenceGenerator option value installs.
C10_IndependentRecords ==
    last.op = "WriteSub" =>
        /\ \A t \in Slots \ {last.s} :
              FieldView(di[t], heap, "SequenceGenerator") = last.pre[t]["SequenceGenerator"]
        /\ seqGen = [id \in SGIds |-> SGInfo(id)]

====
